---- MODULE Spec2Model ----
(***************************************************************************)
(* Model of the Solana RPC stress tester (src/src/main.rs): the shared     *)
(* statistics collector Stats, the worker request loop, the composite      *)
(* getLatestBlock request, and main's spawn / join / print_summary.        *)
(*                                                                         *)
(* A step of a task is the code it runs up to its next await (the network  *)
(* call, the pacing sleep) or its next access to shared memory (an atomic  *)
(* fetch_add, the mutex, the queue), so that all interleavings of the      *)
(* tokio tasks are explored.  The clock `now` counts whole seconds         *)
(* (durations are built with Duration::from_secs).                         *)
(***************************************************************************)
EXTENDS Integers, Sequences, FiniteSets, Bags, TLC

\* ---------------------------------------------------------------- bounds
NumWorkers == 2      \* tasks spawned by main
MaxRequests == 2     \* logical requests (or recordings) explored per run
MaxTime == 1         \* last clock value explored
MaxParams == 3       \* longest configured parameter list explored
MaxLatencies == 3    \* most latencies in the queue when the summary is printed

\* ------------------------------------------------------ program constants
IdPartition == 1000000       \* worker_id as u64 * 1_000_000
MicrosPerSec == 1000000      \* Duration::as_micros of one clock unit

Workers == 0 .. (NumWorkers - 1)

\* The configuration's methods, getLatestBlock with one worker and getHealth
\* with the others: "getLatestBlock" selects the composite request, any other
\* method is sent as it is.
MethodOf(w) == IF w = 0 THEN "getLatestBlock" ELSE "getHealth"
\* `--duration` in seconds (0 = infinite)
Durations == {0, 1}

VARIABLES
    \* struct Stats
    total_requests, successful_requests, http_timeouts, json_parse_errors,
    network_errors, rpc_errors,
    http_errors,        \* HashMap<String, Arc<AtomicU64>>: key -> counter handle
    counters,           \* the AtomicU64 cells the Arcs point to, by handle
    response_times,     \* SegQueue<u64>
    mutex,              \* holder of the http_errors Mutex, or Free
    \* each worker task
    pc, request_id, start_time, request_start, op, counter,
    \* configuration handed to the workers
    method, params, duration,
    \* main
    mainpc, spawned, joined, report, reports,
    \* environment
    now, alive,
    node_slot,          \* the slot the endpoint answers getSlot with
    node_failing,       \* the endpoint puts an error object in every envelope
    \* history (not program state)
    iters, calls, sent, lastStatus, lastSlot, outcomes,
    iter_start,         \* the time at which line 278 ran in the current iteration
    printed             \* the values of every print_summary call, in order

statsVars == <<total_requests, successful_requests, http_timeouts, json_parse_errors,
               network_errors, rpc_errors, http_errors, counters, response_times, mutex>>
taskVars == <<pc, request_id, start_time, request_start, op, counter>>
confVars == <<method, params, duration, node_slot, node_failing>>
mainVars == <<mainpc, spawned, joined, report, reports>>
histVars == <<iters, iter_start, calls, sent, lastStatus, lastSlot, outcomes, printed>>
vars == <<statsVars, taskVars, confVars, mainVars, now, alive, histVars>>

Free == -1
MainTask == -2
NoOp == [kind |-> "none", status |-> 0, reason |-> "", micros |-> 0]
NoSlot == -1

\* ------------------------------------------------------------ the network
\* What one HTTP exchange can come to: no response within the HTTP timeout,
\* another transport failure, or a response with a status and a body.  A
\* body is either not a JSON-RPC envelope, or an envelope with an optional
\* result (absent, not a number, a slot number) and an optional error object.
NullResult == [t |-> "null", v |-> 0]
Results == {NullResult, [t |-> "str", v |-> 0], [t |-> "num", v |-> node_slot]}
Envelopes ==
    [shape : {"envelope"}, result : Results,
     error : IF node_failing THEN {TRUE} ELSE BOOLEAN]
Garbage == [shape |-> "garbage", result |-> NullResult, error |-> FALSE]
Bodies == Envelopes \cup {Garbage}
HttpStatuses == {200, 429}
NetEvents ==
    {[kind |-> k, status |-> 0, body |-> Garbage] : k \in {"timeout", "network"}}
    \cup [kind : {"http"}, status : HttpStatuses, body : Bodies]

\* http::StatusCode::canonical_reason
canonical_reason(status) ==
    CASE status = 200 -> "OK"
      [] status = 429 -> "Too Many Requests"
      [] status = 500 -> "Internal Server Error"
      [] OTHER -> "None"

\* Result<JsonRpcResponse, reqwest::Error>
OkResponse(result, error) ==
    [ok |-> TRUE, result |-> result, error |-> error,
     is_decode |-> FALSE, is_status |-> FALSE, is_timeout |-> FALSE, status |-> 0]
ErrResponse(dec, st, tmo, status) ==
    [ok |-> FALSE, result |-> NullResult, error |-> FALSE,
     is_decode |-> dec, is_status |-> st, is_timeout |-> tmo, status |-> status]

\* send_rpc_request: `.send().await?` fails on a transport failure only; the
\* response is handed to `.json()` whatever its status is (there is no
\* error_for_status call), which fails when the body cannot be read or is
\* not a JsonRpcResponse.
send_rpc_request(ev) ==
    CASE ev.kind = "timeout" -> ErrResponse(FALSE, FALSE, TRUE, 0)
      [] ev.kind = "network" -> ErrResponse(FALSE, FALSE, FALSE, 0)
      [] ev.body.shape = "garbage" -> ErrResponse(TRUE, FALSE, FALSE, 0)
      [] OTHER -> OkResponse(ev.body.result, ev.body.error)

\* get_latest_slot: Some(slot) when the call succeeded and `result` is
\* present and deserialises as u64; the `error` field is not looked at.
get_latest_slot(res) ==
    IF res.ok /\ res.result.t = "num" /\ res.result.v >= 0
    THEN res.result.v
    ELSE NoSlot

Outcome(kind) == [kind |-> kind, status |-> 0, reason |-> "", micros |-> 0]

\* worker, lines 333-385: which Stats operation the result of the request
\* leads to.
Classify(res, micros) ==
    IF res.ok
    THEN IF ~res.error
         THEN [kind |-> "success", status |-> 0, reason |-> "", micros |-> micros]
         ELSE Outcome("rpc")
    ELSE IF res.is_decode THEN Outcome("decode")
         ELSE IF res.is_status
              THEN IF res.status # 0
                   THEN [kind |-> "http", status |-> res.status,
                         reason |-> IF canonical_reason(res.status) = "None"
                                    THEN "Unknown"
                                    ELSE canonical_reason(res.status),
                         micros |-> 0]
                   ELSE Outcome("network")
              ELSE IF res.is_timeout THEN Outcome("timeout")
                   ELSE Outcome("network")

\* format!("{} {}", status_code, reason)
error_key(status_code, reason) == ToString(status_code) \o " " \o reason

\* HashMap::entry(key).or_insert_with(|| Arc::new(AtomicU64::new(0))).clone():
\* the handle of the key's counter, a new zeroed cell when the key is new.
entry_always_insert(m, cells, key) ==
    [map |-> [k \in DOMAIN m \cup {key} |-> IF k = key THEN Len(cells) + 1 ELSE m[k]],
     cells |-> Append(cells, 0),
     handle |-> Len(cells) + 1]
entry_or_insert(m, cells, key) ==
    IF key \in DOMAIN m
    THEN [map |-> m, cells |-> cells, handle |-> m[key]]
    ELSE [map |-> [k \in DOMAIN m \cup {key} |-> IF k = key THEN Len(cells) + 1 ELSE m[k]],
          cells |-> Append(cells, 0),
          handle |-> Len(cells) + 1]

\* AtomicU64::fetch_add(1, Relaxed)
fetch_add(v) == v + 1

EmptyMap == [k \in {} |-> 0]

\* an f64 the summary computes, kept as the exact quotient num / den
Frac(n, d) == [num |-> n, den |-> d]

RECURSIVE SeqSum(_)
\* times.iter().sum()
SeqSum(q) == IF q = <<>> THEN 0 ELSE Head(q) + SeqSum(Tail(q))
\* times.iter().min() / max() of a non-empty Vec
SeqMin(q) == CHOOSE x \in {q[i] : i \in DOMAIN q} : \A j \in DOMAIN q : x <= q[j]
SeqMax(q) == CHOOSE x \in {q[i] : i \in DOMAIN q} : \A j \in DOMAIN q : x >= q[j]

\* lines 169-174
avg_latency_truncated(times) ==
    IF times # <<>>
    THEN Frac((SeqSum(times) \div Len(times)) \div 1000, 1)
    ELSE Frac(0, 1)
avg_latency(times) ==
    IF times # <<>>
    THEN Frac(SeqSum(times), Len(times) * 1000)
    ELSE Frac(0, 1)
\* lines 176-177
min_latency(times) == IF times = <<>> THEN Frac(0, 1) ELSE Frac(SeqMin(times), 1000)
max_latency(times) == IF times = <<>> THEN Frac(0, 1) ELSE Frac(SeqMax(times), 1000)
\* lines 179-183
success_rate(successful, total) ==
    IF total > 0 THEN Frac(successful * 100, total) ELSE Frac(0, 1)

\* what print_summary has read and computed so far
NoReport == [total |-> 0, successful |-> 0, http_timeouts |-> 0, json_parse_errors |-> 0,
             network_errors |-> 0, rpc_errors |-> 0, times |-> <<>>, http |-> EmptyMap,
             avg_latency |-> Frac(0, 1), min_latency |-> Frac(0, 1),
             max_latency |-> Frac(0, 1), success_rate |-> Frac(0, 1)]

\* ----------------------------------------------------------------- Init
InitStats ==
    /\ total_requests = 0 /\ successful_requests = 0 /\ http_timeouts = 0
    /\ json_parse_errors = 0 /\ network_errors = 0 /\ rpc_errors = 0
    /\ http_errors = EmptyMap /\ counters = <<>> /\ response_times = <<>>
    /\ mutex = Free

InitTasks ==
    /\ pc = [w \in Workers |-> "unspawned"]
    /\ request_id = [w \in Workers |-> 0]
    /\ start_time = [w \in Workers |-> 0]
    /\ request_start = [w \in Workers |-> 0]
    /\ op = [w \in Workers |-> NoOp]
    /\ counter = [w \in Workers |-> 0]

InitMain ==
    /\ mainpc = "spawn" /\ spawned = 0 /\ joined = 0
    /\ report = NoReport /\ reports = 0

InitHist ==
    /\ iters = [w \in Workers |-> 0]
    /\ iter_start = [w \in Workers |-> 0]
    /\ calls = [w \in Workers |-> 0]
    /\ sent = {}
    /\ lastStatus = [w \in Workers |-> 0]
    /\ lastSlot = [w \in Workers |-> NoSlot - 1]
    /\ outcomes = EmptyBag
    /\ printed = <<>>

Init ==
    /\ InitStats /\ InitTasks /\ InitMain /\ InitHist
    /\ method = [w \in Workers |-> MethodOf(w)]
    /\ params = [w \in Workers |-> <<>>]
    /\ node_slot = 5 /\ node_failing = FALSE
    /\ duration \in Durations
    /\ now = 0 /\ alive = TRUE

\* ------------------------------------------------- Stats::record_* steps
\* Every record_* starts with total_requests.fetch_add(1); what follows
\* depends on the operation, kept in op[t] while the task is inside it.
RecStates == {"rec_successful", "rec_push", "rec_category",
              "http_lock", "http_entry", "http_add"}

AfterTotal(kind) ==
    CASE kind = "success" -> "rec_successful"
      [] kind = "http" -> "http_lock"
      [] OTHER -> "rec_category"

\* a record operation is called: its first fetch_add
InvokeSkipTotal(t, o) ==
    /\ op' = [op EXCEPT ![t] = o]
    /\ total_requests' = total_requests
    /\ pc' = [pc EXCEPT ![t] = AfterTotal(o.kind)]
    /\ calls' = [calls EXCEPT ![t] = @ + 1]
    /\ outcomes' = outcomes (+) SetToBag({o})
Invoke(t, o) ==
    /\ op' = [op EXCEPT ![t] = o]
    /\ total_requests' = fetch_add(total_requests)
    /\ pc' = [pc EXCEPT ![t] = AfterTotal(o.kind)]
    /\ calls' = [calls EXCEPT ![t] = @ + 1]
    /\ outcomes' = outcomes (+) SetToBag({o})

\* the record operation returns and the pacing sleep starts (lines 325, 388);
\* the history of the finished request is dropped with it
FinishedFatal(t) ==
    /\ pc' = [pc EXCEPT ![t] = IF op[t].kind = "success" THEN "sleep" ELSE "Stopped"]
    /\ op' = [op EXCEPT ![t] = NoOp]
    /\ lastStatus' = [lastStatus EXCEPT ![t] = 0]
    /\ lastSlot' = [lastSlot EXCEPT ![t] = NoSlot - 1]
Finished(t) ==
    /\ pc' = [pc EXCEPT ![t] = "sleep"]
    /\ op' = [op EXCEPT ![t] = NoOp]
    /\ lastStatus' = [lastStatus EXCEPT ![t] = 0]
    /\ lastSlot' = [lastSlot EXCEPT ![t] = NoSlot - 1]

\* record_success, line 118
RecSuccessful(t) ==
    /\ alive /\ pc[t] = "rec_successful"
    /\ successful_requests' = fetch_add(successful_requests)
    /\ pc' = [pc EXCEPT ![t] = "rec_push"]
    /\ UNCHANGED <<total_requests, http_timeouts, json_parse_errors, network_errors,
                   rpc_errors, http_errors, counters, response_times, mutex>>
    /\ UNCHANGED <<request_id, start_time, request_start, op, counter>>
    /\ UNCHANGED <<confVars, mainVars, now, alive, histVars>>

\* record_success, line 119: SegQueue::push
RecPush(t) ==
    /\ alive /\ pc[t] = "rec_push"
    /\ response_times' = Append(response_times, op[t].micros)
    /\ Finished(t)
    /\ UNCHANGED <<total_requests, successful_requests, http_timeouts, json_parse_errors,
                   network_errors, rpc_errors, http_errors, counters, mutex>>
    /\ UNCHANGED <<request_id, start_time, request_start, counter>>
    /\ UNCHANGED <<confVars, mainVars, now, alive, iters, iter_start, calls, sent, outcomes, printed>>

\* the second fetch_add of record_http_timeout (137), record_json_parse_error
\* (142), record_network_error (147), record_rpc_error (152): `field` is the
\* counter, `kind` the operation running
category_add_not_rpc(kind, field, v) ==
    IF kind = field /\ kind # "rpc" THEN fetch_add(v) ELSE v
category_add_swapped(kind, field, v) ==
    IF (kind = "decode" /\ field = "network") \/ (kind = field /\ kind # "decode")
    THEN fetch_add(v) ELSE v
category_add(kind, field, v) ==
    IF kind = field THEN fetch_add(v) ELSE v

RecCategoryPush(t) ==
    /\ alive /\ pc[t] = "rec_category"
    /\ http_timeouts' = category_add(op[t].kind, "timeout", http_timeouts)
    /\ json_parse_errors' = category_add(op[t].kind, "decode", json_parse_errors)
    /\ network_errors' = category_add(op[t].kind, "network", network_errors)
    /\ rpc_errors' = category_add(op[t].kind, "rpc", rpc_errors)
    /\ Finished(t)
    /\ response_times' = Append(response_times, op[t].micros)
    /\ UNCHANGED <<total_requests, successful_requests, http_errors, counters, mutex>>
    /\ UNCHANGED <<request_id, start_time, request_start, counter>>
    /\ UNCHANGED <<confVars, mainVars, now, alive, iters, iter_start, calls, sent, outcomes, printed>>
RecCategory(t) ==
    /\ alive /\ pc[t] = "rec_category"
    /\ http_timeouts' = category_add(op[t].kind, "timeout", http_timeouts)
    /\ json_parse_errors' = category_add(op[t].kind, "decode", json_parse_errors)
    /\ network_errors' = category_add(op[t].kind, "network", network_errors)
    /\ rpc_errors' = category_add(op[t].kind, "rpc", rpc_errors)
    /\ Finished(t)
    /\ UNCHANGED <<total_requests, successful_requests, http_errors, counters,
                   response_times, mutex>>
    /\ UNCHANGED <<request_id, start_time, request_start, counter>>
    /\ UNCHANGED <<confVars, mainVars, now, alive, iters, iter_start, calls, sent, outcomes, printed>>

\* record_http_error, line 126: self.http_errors.lock()
HttpLock(t) ==
    /\ alive /\ pc[t] = "http_lock"
    /\ mutex = Free
    /\ mutex' = t
    /\ pc' = [pc EXCEPT ![t] = "http_entry"]
    /\ UNCHANGED <<total_requests, successful_requests, http_timeouts, json_parse_errors,
                   network_errors, rpc_errors, http_errors, counters, response_times>>
    /\ UNCHANGED <<request_id, start_time, request_start, op, counter>>
    /\ UNCHANGED <<confVars, mainVars, now, alive, histVars>>

\* record_http_error, lines 127-131: entry().or_insert_with().clone(), drop(errors)
HttpEntryKeepLock(t) ==
    /\ alive /\ pc[t] = "http_entry" /\ mutex = t
    /\ LET e == entry_or_insert(http_errors, counters, error_key(op[t].status, op[t].reason))
       IN /\ http_errors' = e.map
          /\ counters' = e.cells
          /\ counter' = [counter EXCEPT ![t] = e.handle]
    /\ mutex' = mutex
    /\ pc' = [pc EXCEPT ![t] = "http_add"]
    /\ UNCHANGED <<total_requests, successful_requests, http_timeouts, json_parse_errors,
                   network_errors, rpc_errors, response_times>>
    /\ UNCHANGED <<request_id, start_time, request_start, op>>
    /\ UNCHANGED <<confVars, mainVars, now, alive, histVars>>
HttpEntry(t) ==
    /\ alive /\ pc[t] = "http_entry" /\ mutex = t
    /\ LET e == entry_or_insert(http_errors, counters, error_key(op[t].status, op[t].reason))
       IN /\ http_errors' = e.map
          /\ counters' = e.cells
          /\ counter' = [counter EXCEPT ![t] = e.handle]
    /\ mutex' = Free
    /\ pc' = [pc EXCEPT ![t] = "http_add"]
    /\ UNCHANGED <<total_requests, successful_requests, http_timeouts, json_parse_errors,
                   network_errors, rpc_errors, response_times>>
    /\ UNCHANGED <<request_id, start_time, request_start, op>>
    /\ UNCHANGED <<confVars, mainVars, now, alive, histVars>>

\* record_http_error, line 132: counter.fetch_add(1)
HttpAdd(t) ==
    /\ alive /\ pc[t] = "http_add"
    /\ counters' = [counters EXCEPT ![counter[t]] = fetch_add(@)]
    /\ counter' = [counter EXCEPT ![t] = 0]
    /\ Finished(t)
    /\ UNCHANGED <<total_requests, successful_requests, http_timeouts, json_parse_errors,
                   network_errors, rpc_errors, http_errors, response_times, mutex>>
    /\ UNCHANGED <<request_id, start_time, request_start>>
    /\ UNCHANGED <<confVars, mainVars, now, alive, iters, iter_start, calls, sent, outcomes, printed>>

\* ---------------------------------------------------------------- worker
\* serde_json::Value, as far as the parameters of a request go
JsonNumber(n) == [t |-> "num", v |-> n]
JsonObject(o) == [t |-> "obj", v |-> o]

\* lines 308-314: the json! literal
DefaultBlockOptions ==
    JsonObject([commitment |-> "finalized", encoding |-> "json",
                transactionDetails |-> "full",
                maxSupportedTransactionVersion |-> 0, rewards |-> FALSE])

\* lines 292-316: the parameters of getBlock, from the slot and the worker's
\* `params` (a Rust Vec: params[0] is ps[1] here)
block_params_rewards(slot, ps) ==
    IF Len(ps) > 1 THEN <<JsonNumber(slot), ps[2]>>
    ELSE IF Len(ps) > 0 THEN <<JsonNumber(slot), ps[1]>>
    ELSE <<JsonNumber(slot), [DefaultBlockOptions EXCEPT !.v.rewards = TRUE]>>
block_params(slot, ps) ==
    IF ps # <<>> /\ Len(ps) > 1 THEN <<JsonNumber(slot), ps[2]>>
    ELSE IF ps # <<>> THEN <<JsonNumber(slot), ps[1]>>
    ELSE <<JsonNumber(slot), DefaultBlockOptions>>

\* line 275: start_time.elapsed() < duration || duration.as_secs() == 0
LoopCondLe(elapsed, d) == (elapsed <= d) \/ (d = 0)
LoopCondUnbounded(elapsed, d) == (elapsed < d) \/ (d >= 0)
LoopCond(elapsed, d) == (elapsed < d) \/ (d = 0)

Composite(w) == method[w] = "getLatestBlock"

RECURSIVE SumUpTo(_, _)
SumUpTo(f, n) == IF n < 0 THEN 0 ELSE f[n] + SumUpTo(f, n - 1)
\* requests started so far, over all workers
Started == SumUpTo(iters, NumWorkers - 1)

\* lines 276-284 / 329-333: the loop body up to its first await, from the
\* value `id` of request_id.  A composite iteration takes two ids and sends
\* getSlot with the first of them.
BeginIterationOneId(w, id) ==
    /\ iters' = [iters EXCEPT ![w] = @ + 1]
    /\ iter_start' = [iter_start EXCEPT ![w] = now]
    /\ request_start' = [request_start EXCEPT ![w] = now]
    /\ request_id' = [request_id EXCEPT ![w] = id + 1]
    /\ sent' = sent \cup {[id |-> id + 1, w |-> w, it |-> iters[w] + 1,
                            m |-> IF Composite(w) THEN "getSlot" ELSE method[w],
                            p |-> IF Composite(w) THEN <<>> ELSE params[w]]}
    /\ pc' = [pc EXCEPT ![w] = IF Composite(w) THEN "slot" ELSE "send"]
BeginIteration(w, id) ==
    /\ iters' = [iters EXCEPT ![w] = @ + 1]
    /\ iter_start' = [iter_start EXCEPT ![w] = now]
    /\ request_start' = [request_start EXCEPT ![w] = now]
    /\ IF Composite(w)
       THEN /\ request_id' = [request_id EXCEPT ![w] = id + 2]
            /\ sent' = sent \cup {[id |-> id + 1, w |-> w, it |-> iters[w] + 1,
                                   m |-> "getSlot", p |-> <<>>]}
            /\ pc' = [pc EXCEPT ![w] = "slot"]
       ELSE /\ request_id' = [request_id EXCEPT ![w] = id + 1]
            /\ sent' = sent \cup {[id |-> id + 1, w |-> w, it |-> iters[w] + 1,
                                   m |-> method[w], p |-> params[w]]}
            /\ pc' = [pc EXCEPT ![w] = "send"]

\* the loop condition is false: the task ends and its locals are dropped
EndLoop(w) ==
    /\ pc' = [pc EXCEPT ![w] = "Stopped"]
    /\ request_id' = [request_id EXCEPT ![w] = 0]
    /\ UNCHANGED <<request_start, iters, iter_start, sent>>

\* lines 267-284: the task's first poll: the client is built, the start time
\* taken, the ids based, and the loop entered
Start(w) ==
    /\ alive /\ pc[w] = "spawned"
    /\ start_time' = [start_time EXCEPT ![w] = now]
    /\ IF LoopCond(now - now, duration)
       THEN Started < MaxRequests /\ BeginIteration(w, w * IdPartition)
       ELSE EndLoop(w)
    /\ UNCHANGED <<op, counter>>
    /\ UNCHANGED <<statsVars, confVars, mainVars, now, alive>>
    /\ UNCHANGED <<calls, lastStatus, lastSlot, outcomes, printed>>

\* lines 325 / 388, 275-284: the pacing sleep ends and the loop condition is
\* evaluated again
Wake(w) ==
    /\ alive /\ pc[w] = "sleep"
    /\ IF LoopCond(now - start_time[w], duration)
       THEN Started < MaxRequests /\ BeginIteration(w, request_id[w])
                 /\ UNCHANGED start_time
       ELSE EndLoop(w) /\ start_time' = [start_time EXCEPT ![w] = 0]
    /\ UNCHANGED <<op, counter>>
    /\ UNCHANGED <<statsVars, confVars, mainVars, now, alive>>
    /\ UNCHANGED <<calls, lastStatus, lastSlot, outcomes, printed>>

\* lines 320-327: get_latest_slot returned None: record_rpc_error is called
\* and nothing is sent (the sleep and `continue` follow the record steps)
OnNoSlotDrop(w) ==
    /\ pc' = [pc EXCEPT ![w] = "sleep"]
    /\ sent' = sent
    /\ UNCHANGED <<op, calls, outcomes, total_requests>>
OnNoSlotSendBlock(w) ==
    /\ Invoke(w, Outcome("rpc"))
    /\ sent' = sent \cup {[id |-> request_id[w], w |-> w, it |-> iters[w],
                            m |-> "getBlock", p |-> <<>>]}
OnNoSlot(w) ==
    /\ Invoke(w, Outcome("rpc"))
    /\ sent' = sent

\* lines 285-319: get_latest_slot returned Some(slot): getBlock is made up
\* with the second id and sent; request_start is the one taken on line 278
SendBlockRestart(w, slot) ==
    /\ sent' = sent \cup {[id |-> request_id[w], w |-> w, it |-> iters[w],
                            m |-> "getBlock", p |-> block_params(slot, params[w])]}
    /\ pc' = [pc EXCEPT ![w] = "send"]
    /\ request_start' = [request_start EXCEPT ![w] = now]
    /\ UNCHANGED <<op, calls, outcomes, total_requests>>
SendBlock(w, slot) ==
    /\ sent' = sent \cup {[id |-> request_id[w], w |-> w, it |-> iters[w],
                            m |-> "getBlock", p |-> block_params(slot, params[w])]}
    /\ pc' = [pc EXCEPT ![w] = "send"]
    /\ request_start' = request_start
    /\ UNCHANGED <<op, calls, outcomes, total_requests>>

\* lines 284-328: get_latest_slot returns.  Some(slot): getBlock is sent.
\* None: record_rpc_error, sleep, continue.
SlotResponse(w) ==
    /\ alive /\ pc[w] = "slot"
    /\ \E ev \in NetEvents :
          LET slot == get_latest_slot(send_rpc_request(ev))
          IN /\ lastSlot' = [lastSlot EXCEPT ![w] = slot]
             /\ IF slot = NoSlot
                THEN /\ OnNoSlot(w)
                     /\ request_start' = request_start
                     /\ lastStatus' = [lastStatus EXCEPT ![w] = ev.status]
                ELSE /\ SendBlock(w, slot)
                     /\ lastStatus' = lastStatus
    /\ UNCHANGED <<request_id, start_time, counter>>
    /\ UNCHANGED <<successful_requests, http_timeouts, json_parse_errors, network_errors,
                   rpc_errors, http_errors, counters, response_times, mutex>>
    /\ UNCHANGED <<confVars, mainVars, now, alive, iters, iter_start, printed>>

\* lines 333-385: send_rpc_request returns, its result is classified and the
\* record operation called
Response(w) ==
    /\ alive /\ pc[w] = "send"
    /\ \E ev \in NetEvents :
          /\ lastStatus' = [lastStatus EXCEPT ![w] = ev.status]
          /\ Invoke(w, Classify(send_rpc_request(ev),
                                (now - request_start[w]) * MicrosPerSec))
    /\ request_start' = [request_start EXCEPT ![w] = 0]
    /\ iter_start' = [iter_start EXCEPT ![w] = 0]
    /\ UNCHANGED <<request_id, start_time, counter>>
    /\ UNCHANGED <<successful_requests, http_timeouts, json_parse_errors, network_errors,
                   rpc_errors, http_errors, counters, response_times, mutex>>
    /\ UNCHANGED <<confVars, mainVars, now, alive, iters, sent, lastSlot, printed>>

\* ------------------------------------------------------------------ main
AllStopped == \A w \in Workers : pc[w] = "Stopped"

\* lines 577-590 (537-555): tokio::spawn(worker(i, ...))
Spawn ==
    /\ alive /\ mainpc = "spawn"
    /\ pc' = [pc EXCEPT ![spawned] = "spawned"]
    /\ spawned' = spawned + 1
    /\ mainpc' = IF spawned + 1 = NumWorkers THEN "join" ELSE "spawn"
    /\ UNCHANGED <<request_id, start_time, request_start, op, counter>>
    /\ UNCHANGED <<joined, report, reports>>
    /\ UNCHANGED <<statsVars, confVars, now, alive, histVars>>

\* lines 594-596: handle.await completes when the task has ended
JoinableAlways(w) == TRUE
Joinable(w) == pc[w] = "Stopped"

Join ==
    /\ alive /\ mainpc = "join"
    /\ Joinable(joined)
    /\ joined' = joined + 1
    /\ mainpc' = IF joined + 1 = NumWorkers THEN "summary_load" ELSE "join"
    /\ UNCHANGED <<spawned, report, reports>>
    /\ UNCHANGED <<statsVars, taskVars, confVars, now, alive, histVars>>

\* print_summary, lines 156-161: the six loads
SummaryLoad ==
    /\ alive /\ mainpc = "summary_load"
    /\ report' = [NoReport EXCEPT !.total = total_requests,
                                  !.successful = successful_requests,
                                  !.http_timeouts = http_timeouts,
                                  !.json_parse_errors = json_parse_errors,
                                  !.network_errors = network_errors,
                                  !.rpc_errors = rpc_errors]
    /\ mainpc' = "summary_drain"
    /\ UNCHANGED <<spawned, joined, reports>>
    /\ UNCHANGED <<statsVars, taskVars, confVars, now, alive, histVars>>

\* print_summary, lines 164-183: pop until the queue is empty, then the
\* latency figures and the success rate are computed from the locals
SummaryDrainPeek ==
    /\ alive /\ mainpc = "summary_drain"
    /\ report' = [report EXCEPT !.times = response_times,
                                !.avg_latency = avg_latency(response_times),
                                !.min_latency = min_latency(response_times),
                                !.max_latency = max_latency(response_times),
                                !.success_rate = success_rate(report.successful, report.total)]
    /\ response_times' = response_times
    /\ mainpc' = "summary_lock"
    /\ UNCHANGED <<total_requests, successful_requests, http_timeouts, json_parse_errors,
                   network_errors, rpc_errors, http_errors, counters, mutex>>
    /\ UNCHANGED <<spawned, joined, reports>>
    /\ UNCHANGED <<taskVars, confVars, now, alive, histVars>>
SummaryDrain ==
    /\ alive /\ mainpc = "summary_drain"
    /\ report' = [report EXCEPT !.times = response_times,
                                !.avg_latency = avg_latency(response_times),
                                !.min_latency = min_latency(response_times),
                                !.max_latency = max_latency(response_times),
                                !.success_rate = success_rate(report.successful, report.total)]
    /\ response_times' = <<>>
    /\ mainpc' = "summary_lock"
    /\ UNCHANGED <<total_requests, successful_requests, http_timeouts, json_parse_errors,
                   network_errors, rpc_errors, http_errors, counters, mutex>>
    /\ UNCHANGED <<spawned, joined, reports>>
    /\ UNCHANGED <<taskVars, confVars, now, alive, histVars>>

\* print_summary, line 191: self.http_errors.lock()
SummaryLock ==
    /\ alive /\ mainpc = "summary_lock"
    /\ mutex = Free
    /\ mutex' = MainTask
    /\ mainpc' = "summary_print"
    /\ UNCHANGED <<total_requests, successful_requests, http_timeouts, json_parse_errors,
                   network_errors, rpc_errors, http_errors, counters, response_times>>
    /\ UNCHANGED <<spawned, joined, report, reports>>
    /\ UNCHANGED <<taskVars, confVars, now, alive, histVars>>

\* print_summary, lines 192-211: the breakdown is read, the lock dropped,
\* the rest printed
SummaryPrint ==
    /\ alive /\ mainpc = "summary_print" /\ mutex = MainTask
    /\ LET r == [report EXCEPT !.http = [k \in DOMAIN http_errors |->
                                            counters[http_errors[k]]]]
       IN report' = r /\ printed' = Append(printed, r)
    /\ mutex' = Free
    /\ reports' = reports + 1
    /\ mainpc' = "done"
    /\ UNCHANGED <<total_requests, successful_requests, http_timeouts, json_parse_errors,
                   network_errors, rpc_errors, http_errors, counters, response_times>>
    /\ UNCHANGED <<spawned, joined>>
    /\ UNCHANGED <<taskVars, confVars, now, alive>>
    /\ UNCHANGED <<iters, iter_start, calls, sent, lastStatus, lastSlot, outcomes>>

\* ----------------------------------------------------------- environment
\* The clock is read only through start_time.elapsed() (lines 272, 275, 336)
\* of a worker that has been polled and has not returned, so time that passes
\* while no such worker exists is not observed by the program.
Tick ==
    /\ alive /\ now < MaxTime
    /\ \E w \in Workers : pc[w] \notin {"unspawned", "spawned", "Stopped"}
    /\ now' = now + 1
    /\ UNCHANGED <<statsVars, taskVars, confVars, mainVars, alive, histVars>>

\* ------------------------------------------------------------ the program
\* The record_http_error steps are no part of it: send_rpc_request never
\* returns an error with is_status(), so the worker never calls it.
Next ==
    \/ Spawn
    \/ \E w \in Workers :
          \/ Start(w) \/ Wake(w) \/ SlotResponse(w) \/ Response(w)
          \/ RecSuccessful(w) \/ RecPush(w) \/ RecCategory(w)
    \/ Join \/ SummaryLoad \/ SummaryDrain \/ SummaryLock \/ SummaryPrint
    \/ Tick

Spec == Init /\ [][Next]_vars

\* ------------------------------------------- Stats under concurrent callers
\* The collector on its own: NumWorkers tasks call record operations of
\* their choice, MaxRequests calls in all, then end; main joins them and
\* prints the summary.
RecordOps ==
    {[kind |-> "success", status |-> 0, reason |-> "", micros |-> m] : m \in {1000, 2000}}
    \cup {[kind |-> "http", status |-> c, reason |-> canonical_reason(c), micros |-> 0] :
            c \in {429, 500}}
    \cup {Outcome(k) : k \in {"timeout", "decode", "network", "rpc"}}

\* a call of Stats::record_* (lines 116-153) by a task that is in none
Call(t) ==
    /\ alive /\ pc[t] \in {"spawned", "sleep"}
    /\ BagCardinality(outcomes) < MaxRequests
    /\ \E o \in RecordOps : Invoke(t, o)
    /\ UNCHANGED <<request_id, start_time, request_start, counter>>
    /\ UNCHANGED <<successful_requests, http_timeouts, json_parse_errors, network_errors,
                   rpc_errors, http_errors, counters, response_times, mutex>>
    /\ UNCHANGED <<confVars, mainVars, now, alive, iters, iter_start, sent, lastStatus, lastSlot,
                   printed>>

\* the calling task ends
Return(t) ==
    /\ alive /\ pc[t] \in {"spawned", "sleep"}
    /\ pc' = [pc EXCEPT ![t] = "Stopped"]
    /\ UNCHANGED <<request_id, start_time, request_start, op, counter>>
    /\ UNCHANGED <<statsVars, confVars, mainVars, now, alive, histVars>>

NextStats ==
    \/ Spawn
    \/ \E t \in Workers :
          \/ Call(t) \/ Return(t)
          \/ RecSuccessful(t) \/ RecPush(t) \/ RecCategory(t)
          \/ HttpLock(t) \/ HttpEntry(t) \/ HttpAdd(t)
    \/ Join \/ SummaryLoad \/ SummaryDrain \/ SummaryLock \/ SummaryPrint

InitCallers == Init /\ duration = 0

SpecStats == InitCallers /\ [][NextStats]_vars

\* ------------------------------------------------ the workers late in a run
\* The request loops seen from a state of an unbounded run (duration 0) in
\* which main waits for its first handle and a worker either has not been
\* polled yet or has completed a number of iterations (half the width of an
\* id range, one less, or two less than the whole width), every one of them
\* recorded as a network error; the history variables start there.
AheadIters == IdPartition \div 2
AheadChoices == {0, AheadIters - 1, AheadIters, IdPartition - 2}

IdsUsed(w, n) == IF Composite(w) THEN 2 * n ELSE n

InitIds ==
    /\ InitHist
    /\ mainpc = "join" /\ spawned = NumWorkers /\ joined = 0
    /\ report = NoReport /\ reports = 0
    /\ method = [w \in Workers |-> MethodOf(w)]
    /\ params = [w \in Workers |-> <<>>]
    /\ node_slot = 5 /\ node_failing = FALSE
    /\ duration = 0
    /\ now = 0 /\ alive = TRUE
    /\ \E ahead \in [Workers -> AheadChoices] :
          /\ pc = [w \in Workers |-> IF ahead[w] = 0 THEN "spawned" ELSE "sleep"]
          /\ request_id = [w \in Workers |-> IF ahead[w] = 0 THEN 0
                                             ELSE w * IdPartition + IdsUsed(w, ahead[w])]
          /\ total_requests = SumUpTo(ahead, NumWorkers - 1)
          /\ network_errors = SumUpTo(ahead, NumWorkers - 1)
    /\ start_time = [w \in Workers |-> 0]
    /\ request_start = [w \in Workers |-> 0]
    /\ op = [w \in Workers |-> NoOp]
    /\ counter = [w \in Workers |-> 0]
    /\ successful_requests = 0 /\ http_timeouts = 0
    /\ json_parse_errors = 0 /\ rpc_errors = 0
    /\ http_errors = EmptyMap /\ counters = <<>> /\ response_times = <<>>
    /\ mutex = Free

NextIds ==
    \E w \in Workers :
        \/ Start(w) \/ Wake(w) \/ SlotResponse(w) \/ Response(w)
        \/ RecSuccessful(w) \/ RecPush(w) \/ RecCategory(w)

SpecIds == InitIds /\ [][NextIds]_vars

\* ------------------------------------------------- the composite workers
\* The workers of a configuration whose method entries carry a parameter
\* list, against an endpoint at some slot that may put an error object in
\* every envelope: main waits for its first handle, the getLatestBlock
\* workers run, the others have not been polled yet.
CustomOptions ==
    JsonObject([commitment |-> "confirmed", encoding |-> "base64",
                transactionDetails |-> "none",
                maxSupportedTransactionVersion |-> 0, rewards |-> TRUE])
ParamValues == {JsonNumber(1), CustomOptions}
ParamLists == UNION {[1 .. n -> ParamValues] : n \in 0 .. MaxParams}
SlotValues == {0, 12345}

InitBlock ==
    /\ InitStats /\ InitHist
    /\ mainpc = "join" /\ spawned = NumWorkers /\ joined = 0
    /\ report = NoReport /\ reports = 0
    /\ method = [w \in Workers |-> MethodOf(w)]
    /\ \E ps \in ParamLists : params = [w \in Workers |-> ps]
    /\ node_slot \in SlotValues /\ node_failing \in BOOLEAN
    /\ duration = 0
    /\ now = 0 /\ alive = TRUE
    /\ pc = [w \in Workers |-> "spawned"]
    /\ request_id = [w \in Workers |-> 0]
    /\ start_time = [w \in Workers |-> 0]
    /\ request_start = [w \in Workers |-> 0]
    /\ op = [w \in Workers |-> NoOp]
    /\ counter = [w \in Workers |-> 0]

CompositeWorkers == {w \in Workers : Composite(w)}

NextBlock ==
    \E w \in CompositeWorkers :
        \/ Start(w) \/ Wake(w) \/ SlotResponse(w) \/ Response(w)
        \/ RecSuccessful(w) \/ RecPush(w) \/ RecCategory(w)

SpecBlock == InitBlock /\ [][NextBlock]_vars

\* ------------------------------------------------ the summary of a collector
\* print_summary on a collector of a finished run, called once and then once
\* again: the workers have ended after recording some successes (their
\* latencies queued in any order) and at most one error of each kind and
\* HTTP status; what each worker did is not kept.
RECURSIVE SeqToBag(_)
SeqToBag(q) == IF q = <<>> THEN EmptyBag ELSE SetToBag({Head(q)}) (+) SeqToBag(Tail(q))

Latencies == {1000, 2000, 3000}
LatencyQueues == UNION {[1 .. n -> Latencies] : n \in 0 .. MaxLatencies}
ErrorKinds == {"timeout", "decode", "network", "rpc"}
ErrorStatuses == {429, 500}

Success(micros) == [kind |-> "success", status |-> 0, reason |-> "", micros |-> micros]
HttpError(c) == [kind |-> "http", status |-> c, reason |-> canonical_reason(c), micros |-> 0]
Count(k, E) == IF k \in E THEN 1 ELSE 0

InitReport ==
    /\ \E q \in LatencyQueues : \E E \in SUBSET ErrorKinds : \E H \in SUBSET ErrorStatuses :
          /\ response_times = q
          /\ successful_requests = Len(q)
          /\ http_timeouts = Count("timeout", E)
          /\ json_parse_errors = Count("decode", E)
          /\ network_errors = Count("network", E)
          /\ rpc_errors = Count("rpc", E)
          /\ http_errors = [k \in {error_key(c, canonical_reason(c)) : c \in H} |->
                               IF k = error_key(429, canonical_reason(429))
                               THEN 1 ELSE Cardinality(H)]
          /\ counters = [i \in 1 .. Cardinality(H) |-> 1]
          /\ total_requests = Len(q) + Cardinality(E) + Cardinality(H)
          /\ outcomes = SeqToBag([i \in 1 .. Len(q) |-> Success(q[i])])
                          (+) SetToBag({Outcome(k) : k \in E})
                          (+) SetToBag({HttpError(c) : c \in H})
    /\ mutex = Free
    /\ pc = [w \in Workers |-> "Stopped"]
    /\ request_id = [w \in Workers |-> 0]
    /\ start_time = [w \in Workers |-> 0]
    /\ request_start = [w \in Workers |-> 0]
    /\ op = [w \in Workers |-> NoOp]
    /\ counter = [w \in Workers |-> 0]
    /\ method = [w \in Workers |-> MethodOf(w)]
    /\ params = [w \in Workers |-> <<>>]
    /\ node_slot = 5 /\ node_failing = FALSE
    /\ duration = 1
    /\ mainpc = "summary_load" /\ spawned = NumWorkers /\ joined = NumWorkers
    /\ report = NoReport /\ reports = 0
    /\ now = 0 /\ alive = TRUE
    /\ iters = [w \in Workers |-> 0]
    /\ iter_start = [w \in Workers |-> 0]
    /\ calls = [w \in Workers |-> 0]
    /\ sent = {}
    /\ lastStatus = [w \in Workers |-> 0]
    /\ lastSlot = [w \in Workers |-> NoSlot - 1]
    /\ printed = <<>>

\* print_summary is called again on the same collector
SummaryAgain ==
    /\ alive /\ mainpc = "done" /\ reports < 2
    /\ mainpc' = "summary_load"
    /\ UNCHANGED <<spawned, joined, report, reports>>
    /\ UNCHANGED <<statsVars, taskVars, confVars, now, alive, histVars>>

NextReport ==
    SummaryLoad \/ SummaryDrain \/ SummaryLock \/ SummaryPrint \/ SummaryAgain

SpecReport == InitReport /\ [][NextReport]_vars

\* ------------------------------------------------------- a bounded run, fair
\* A run with a duration D > 0 from a state in which main waits for its
\* first handle and every worker has just been polled and waits for the
\* answer to its first request.  The runtime polls a task that can run, a network call
\* or sleep that can complete does, main runs when it can, and time advances
\* while a worker runs.
InitLive ==
    /\ InitStats
    /\ mainpc = "join" /\ spawned = NumWorkers /\ joined = 0
    /\ report = NoReport /\ reports = 0
    /\ method = [w \in Workers |-> MethodOf(w)]
    /\ params = [w \in Workers |-> <<>>]
    /\ node_slot = 5 /\ node_failing = FALSE
    /\ now = 0 /\ alive = TRUE
    /\ duration \in 1 .. MaxTime
    /\ start_time = [w \in Workers |-> 0]
    /\ request_start = [w \in Workers |-> 0]
    /\ pc = [w \in Workers |-> IF Composite(w) THEN "slot" ELSE "send"]
    /\ request_id = [w \in Workers |-> w * IdPartition + IdsUsed(w, 1)]
    /\ op = [w \in Workers |-> NoOp]
    /\ counter = [w \in Workers |-> 0]
    /\ iters = [w \in Workers |-> 1]
    /\ iter_start = [w \in Workers |-> 0]
    /\ calls = [w \in Workers |-> 0]
    /\ sent = {[id |-> w * IdPartition + 1, w |-> w, it |-> 1,
                m |-> IF Composite(w) THEN "getSlot" ELSE method[w],
                p |-> <<>>] : w \in Workers}
    /\ lastStatus = [w \in Workers |-> 0]
    /\ lastSlot = [w \in Workers |-> NoSlot - 1]
    /\ outcomes = EmptyBag
    /\ printed = <<>>

WorkerStep(w) ==
    \/ Wake(w) \/ SlotResponse(w) \/ Response(w)
    \/ RecSuccessful(w) \/ RecPush(w) \/ RecCategory(w)

MainStep == Join \/ SummaryLoad \/ SummaryDrain \/ SummaryLock \/ SummaryPrint

NextLive == (\E w \in Workers : WorkerStep(w)) \/ MainStep \/ Tick

FairLive ==
    /\ \A w \in Workers : WF_vars(WorkerStep(w))
    /\ WF_vars(MainStep)
    /\ WF_vars(Tick)

SpecLive == InitLive /\ [][NextLive]_vars /\ FairLive

\* ---------------------------------------- Stats under scheduled callers
\* The collector under concurrent callers, with the scheduling the program
\* runs under: a thread that holds the mutex is not suspended (there is no
\* await between lock() and the drop of the guard, lines 126-131 and
\* 191-200), so its next step, which drops the guard, comes.  Nothing is
\* assumed about which of the waiting threads gets the mutex.
Release == (\E t \in Workers : HttpEntry(t)) \/ SummaryPrint

FairStats == WF_vars(Release)

SpecLock == InitCallers /\ [][NextStats]_vars /\ FairStats

\* --------------------------------------------------- an external interrupt
\* main installs no signal handler and hands the workers no cancellation
\* token: SIGINT ends the process where it stands.
Interrupt ==
    /\ alive
    /\ alive' = FALSE
    /\ UNCHANGED <<statsVars, taskVars, confVars, mainVars, now, histVars>>

NextSig == Next \/ Interrupt

SpecSig == Init /\ [][NextSig]_vars

\* ================================================================ claims
RECURSIVE SumOver(_, _)
\* the sum of f[k] for k in S
SumOver(f, S) ==
    IF S = {} THEN 0
    ELSE LET k == CHOOSE x \in S : TRUE IN f[k] + SumOver(f, S \ {k})

HttpCount(k) == counters[http_errors[k]]
HttpErrorSum == SumOver([k \in DOMAIN http_errors |-> HttpCount(k)], DOMAIN http_errors)
CategorySum ==
    successful_requests + http_timeouts + json_parse_errors + network_errors + rpc_errors
    + HttpErrorSum

\* how many of the recorded outcomes satisfy kind = k
KindCalls(k) ==
    LET S == {o \in BagToSet(outcomes) : o.kind = k}
    IN SumOver([o \in S |-> CopiesIn(o, outcomes)], S)
\* how many record_http_error calls were made with the key
KeyCalls(key) ==
    LET S == {o \in BagToSet(outcomes) : o.kind = "http" /\ error_key(o.status, o.reason) = key}
    IN SumOver([o \in S |-> CopiesIn(o, outcomes)], S)
HttpKeysCalled ==
    {error_key(o.status, o.reason) : o \in {x \in BagToSet(outcomes) : x.kind = "http"}}

\* the latencies of the recorded successes, as a multiset
SuccessLatencies ==
    LET S == {o \in BagToSet(outcomes) : o.kind = "success"}
    IN [m \in {o.micros : o \in S} |->
           SumOver([o \in {x \in S : x.micros = m} |-> CopiesIn(o, outcomes)],
                   {x \in S : x.micros = m})]

\* C1: once every task that records has ended, total_requests equals the sum
\* of successful_requests, http_timeouts, json_parse_errors, network_errors,
\* rpc_errors and all per-key HTTP-error counts, whatever the number of tasks
\* and the interleaving of their record steps; the summary printed from that
\* state reports the same equality.
C1_TotalIsSumOfCategories ==
    /\ AllStopped => total_requests = CategorySum
    /\ mainpc = "done" =>
         report.total = report.successful + report.http_timeouts + report.json_parse_errors
                        + report.network_errors + report.rpc_errors
                        + SumOver(report.http, DOMAIN report.http)

C1_Witness ==
    /\ AllStopped /\ mainpc = "done"
    /\ total_requests = 2 /\ HttpErrorSum = 1 /\ rpc_errors = 1

\* C2: every loop iteration that passes the loop condition calls exactly one
\* record operation: while the request is in flight the iteration has called
\* none, from the call on it has called one, and total_requests counts one
\* per call, whatever the outcome.
C2_OneRecordPerIteration ==
    /\ \A w \in Workers :
         /\ pc[w] \in {"slot", "send"} => calls[w] = iters[w] - 1
         /\ pc[w] \notin {"slot", "send"} => calls[w] = iters[w]
    /\ total_requests = SumUpTo(calls, NumWorkers - 1)

C2_Witness ==
    /\ \E w \in Workers : Composite(w) /\ iters[w] = 1 /\ pc[w] = "sleep"
    /\ \E w \in Workers : ~Composite(w) /\ iters[w] = 1 /\ pc[w] = "sleep"
    /\ rpc_errors = 1 /\ successful_requests = 1

\* C3: record_http_error loses no increment when callers race on a key that
\* does not exist yet: whenever no task is inside record_http_error, each key
\* that was recorded has one entry whose count is the number of calls made
\* with it, and no other key has an entry.
HttpQuiescent == \A t \in Workers : pc[t] \notin {"http_lock", "http_entry", "http_add"}

C3_NoLostHttpIncrement ==
    HttpQuiescent =>
        /\ DOMAIN http_errors = HttpKeysCalled
        /\ \A key \in HttpKeysCalled : HttpCount(key) = KeyCalls(key)

\* two tasks passed the lookup/create step for the same new key before
\* either of them incremented it
C3_Witness ==
    /\ pc[0] = "http_add" /\ pc[1] = "http_add"
    /\ counter[0] = counter[1]
    /\ counters[counter[0]] = 0

\* C4: the final values are a function of the multiset of recorded outcomes
\* alone: once every task has ended (and before the summary drains the
\* queue), every counter, every per-key HTTP-error count and the multiset of
\* latencies equal what that multiset gives, whichever tasks recorded the
\* outcomes and in whichever interleaving.
C4_OrderIndependent ==
    (AllStopped /\ mainpc \in {"join", "summary_load", "summary_drain"}) =>
        /\ total_requests = BagCardinality(outcomes)
        /\ successful_requests = KindCalls("success")
        /\ http_timeouts = KindCalls("timeout")
        /\ json_parse_errors = KindCalls("decode")
        /\ network_errors = KindCalls("network")
        /\ rpc_errors = KindCalls("rpc")
        /\ DOMAIN http_errors = HttpKeysCalled
        /\ \A key \in HttpKeysCalled : HttpCount(key) = KeyCalls(key)
        /\ SeqToBag(response_times) = SuccessLatencies

C4_Witness ==
    /\ AllStopped /\ mainpc = "summary_load"
    /\ calls[0] = 1 /\ calls[1] = 1
    /\ json_parse_errors = 1 /\ successful_requests = 1

\* C5: in the composite request, when get_latest_slot gives no slot the
\* worker is inside record_rpc_error, having called one record operation for
\* the iteration and sent no getBlock in it; its next step finishes that
\* operation (rpc_errors grows by one, nothing else is recorded or sent) and
\* leaves it at the pacing sleep.
NoSlotCase(w) == lastSlot[w] = NoSlot

C5_NoSlotState ==
    \A w \in Workers :
        NoSlotCase(w) =>
            /\ Composite(w)
            /\ pc[w] = "rec_category" /\ op[w].kind = "rpc"
            /\ calls[w] = iters[w]
            /\ ~ \E r \in sent : r.w = w /\ r.it = iters[w] /\ r.m = "getBlock"

C5_NoSlotStep ==
    \A w \in Workers :
        (NoSlotCase(w) /\ pc'[w] # pc[w]) =>
            /\ pc'[w] = "sleep"
            /\ rpc_errors' = rpc_errors + 1
            /\ total_requests' = total_requests
            /\ sent' = sent

C5_SlotFailureIsOneRpcError == [](C5_NoSlotState) /\ [][C5_NoSlotStep]_vars

C5_Witness ==
    \E w \in Workers : NoSlotCase(w) /\ lastStatus[w] = 200

\* C6: all request ids sent during a run are pairwise distinct, across all
\* workers and both steps of a composite request.
C6_RequestIdsUnique ==
    \A a \in sent : \A b \in sent : a.id = b.id => a = b

\* C7: a worker with duration D > 0 starts a request only when the loop
\* condition saw elapsed < D, ends at the first evaluation that sees
\* elapsed >= D and never runs again; with duration 0 it never ends.
C7_Step ==
    \A w \in Workers :
        /\ iters'[w] # iters[w] => (duration = 0 \/ now - start_time'[w] < duration)
        /\ pc[w] = "Stopped" => pc'[w] = "Stopped"
        /\ (pc[w] # "Stopped" /\ pc'[w] = "Stopped") =>
               (duration > 0 /\ now - start_time[w] >= duration)
        /\ (pc[w] = "sleep" /\ pc'[w] # "sleep" /\ duration > 0
            /\ now - start_time[w] >= duration) => pc'[w] = "Stopped"

C7_DurationBound == [][C7_Step]_vars

C7_Witness ==
    \E w \in Workers :
        /\ duration > 0 /\ pc[w] = "Stopped"
        /\ iters[w] >= 1 /\ now >= duration

\* C8: in the unbounded mode, once termination is requested every worker
\* reaches Stopped, main joins them and the report is produced: a run that
\* was interrupted has ended with all workers Stopped and one report.
C8_InterruptedRunReports ==
    (duration = 0 /\ ~alive) => (AllStopped /\ reports = 1)

\* C9: the summary is printed once per run and only when every spawned worker
\* has ended: while print_summary runs and after it every worker is Stopped,
\* what it has read is still what the collector holds (no record step follows
\* its first load), and it has run exactly once when main is done.
Reporting == mainpc \in {"summary_drain", "summary_lock", "summary_print", "done"}

C9_ReportOnceAfterJoin ==
    /\ reports <= 1
    /\ (reports = 1) <=> (mainpc = "done")
    /\ (mainpc = "summary_load" \/ Reporting) => AllStopped
    /\ Reporting =>
         /\ report.total = total_requests
         /\ report.successful = successful_requests
         /\ report.http_timeouts = http_timeouts
         /\ report.json_parse_errors = json_parse_errors
         /\ report.network_errors = network_errors
         /\ report.rpc_errors = rpc_errors

C9_Witness ==
    mainpc = "done" /\ reports = 1 /\ report.total = 2

\* C10: a request whose final HTTP response has a non-2xx status is recorded
\* with record_http_error, whatever its body.
Non2xx(status) == status # 0 /\ ~(200 <= status /\ status <= 299)

C10_Non2xxIsHttpError ==
    \A w \in Workers :
        (pc[w] \in RecStates /\ ~NoSlotCase(w) /\ Non2xx(lastStatus[w])) =>
            op[w].kind = "http"

\* C11: in the composite request, when the worker's params are empty, the
\* request sent after getSlot answered slot S is getBlock with the parameters
\* [S, {commitment: "finalized", encoding: "json", transactionDetails: "full",
\* maxSupportedTransactionVersion: 0, rewards: false}], whatever S is.
C11_DefaultBlockParams ==
    \A r \in sent :
        (r.m = "getBlock" /\ params[r.w] = <<>>) =>
            r.p = << [t |-> "num", v |-> node_slot],
                     [t |-> "obj",
                      v |-> [commitment |-> "finalized", encoding |-> "json",
                             transactionDetails |-> "full",
                             maxSupportedTransactionVersion |-> 0,
                             rewards |-> FALSE]] >>

C11_Witness ==
    \E r \in sent : r.m = "getBlock" /\ params[r.w] = <<>> /\ node_slot = 12345

\* C12: print_summary drains the latency queue: the first call takes every
\* recorded latency and leaves the queue empty, and a second call on the same
\* collector finds no latency (average, minimum and maximum 0) while total,
\* successful, every error counter and the HTTP breakdown are those of the
\* first call.
C12_DrainIsDestructive ==
    /\ Len(printed) >= 1 =>
         /\ SeqToBag(printed[1].times) = SuccessLatencies
         /\ response_times = <<>>
    /\ Len(printed) >= 2 =>
         /\ printed[2].times = <<>>
         /\ printed[2].avg_latency.num = 0
         /\ printed[2].min_latency.num = 0
         /\ printed[2].max_latency.num = 0
         /\ printed[2].total = printed[1].total
         /\ printed[2].successful = printed[1].successful
         /\ printed[2].http_timeouts = printed[1].http_timeouts
         /\ printed[2].json_parse_errors = printed[1].json_parse_errors
         /\ printed[2].network_errors = printed[1].network_errors
         /\ printed[2].rpc_errors = printed[1].rpc_errors
         /\ printed[2].http = printed[1].http

C12_Witness ==
    /\ Len(printed) = 2
    /\ Len(printed[1].times) = 3
    /\ printed[1].rpc_errors = 1 /\ printed[1].http # EmptyMap

\* C13: the values of the summary are the reference aggregates of the
\* recorded outcomes: success rate = successful / total x 100 (0 when total
\* is 0); average = sum of the latencies / their number / 1000, minimum =
\* least latency / 1000, maximum = greatest latency / 1000 (all 0 when there
\* is no latency).  So an empty collector gives total 0, successful 0, rate
\* 0, latencies 0 and an empty HTTP breakdown, and the latencies 1000, 2000,
\* 3000 give average 2, minimum 1, maximum 3 (milliseconds).
RecordedSuccesses == {o \in BagToSet(outcomes) : o.kind = "success"}
RecordedLatencySum ==
    SumOver([o \in RecordedSuccesses |-> o.micros * CopiesIn(o, outcomes)], RecordedSuccesses)
RecordedLatencies == {o.micros : o \in RecordedSuccesses}

C13_ReportAggregates ==
    Len(printed) >= 1 =>
        LET r == printed[1]
            tot == BagCardinality(outcomes)
            n == KindCalls("success")
        IN /\ r.total = tot /\ r.successful = n
           /\ r.success_rate.den > 0 /\ r.avg_latency.den > 0
           /\ r.min_latency.den > 0 /\ r.max_latency.den > 0
           /\ tot = 0 => r.success_rate.num = 0
           /\ tot > 0 => r.success_rate.num * tot = (n * 100) * r.success_rate.den
           /\ n = 0 => /\ r.avg_latency.num = 0
                       /\ r.min_latency.num = 0
                       /\ r.max_latency.num = 0
           /\ n > 0 =>
                /\ r.avg_latency.num * (n * 1000) = RecordedLatencySum * r.avg_latency.den
                /\ \E lo \in RecordedLatencies :
                      /\ \A x \in RecordedLatencies : lo <= x
                      /\ r.min_latency.num * 1000 = lo * r.min_latency.den
                /\ \E hi \in RecordedLatencies :
                      /\ \A x \in RecordedLatencies : hi >= x
                      /\ r.max_latency.num * 1000 = hi * r.max_latency.den
           /\ tot = 0 => /\ r.successful = 0 /\ r.http = EmptyMap
                         /\ r.http_timeouts = 0 /\ r.json_parse_errors = 0
                         /\ r.network_errors = 0 /\ r.rpc_errors = 0
           /\ SuccessLatencies = (1000 :> 1 @@ 2000 :> 1 @@ 3000 :> 1) =>
                /\ r.avg_latency.num = 2 * r.avg_latency.den
                /\ r.min_latency.num = 1 * r.min_latency.den
                /\ r.max_latency.num = 3 * r.max_latency.den

C13_Witness ==
    /\ Len(printed) >= 1
    /\ printed[1].times = <<3000, 1000, 2000>>
    /\ printed[1].total = 4

\* C14: no outcome of a request ends the worker: from the network call and
\* from every record operation it goes on (a record operation ends in the
\* pacing sleep), it stops only at the loop condition, after a sleep, when
\* the duration is over, and a join of main leads only to the next join or to
\* the summary.
C14_Step ==
    /\ \A w \in Workers :
         /\ pc[w] \in RecStates \cup {"slot", "send"} => pc'[w] # "Stopped"
         /\ (pc[w] \in RecStates /\ pc'[w] \notin RecStates) => pc'[w] = "sleep"
         /\ (pc[w] \in {"slot", "send"} /\ pc'[w] # pc[w]) =>
                pc'[w] \in RecStates \cup {"send"}
         /\ (pc[w] # "Stopped" /\ pc'[w] = "Stopped") =>
                /\ pc[w] = "sleep"
                /\ duration > 0 /\ now - start_time[w] >= duration
    /\ joined' # joined => (pc[joined] = "Stopped" /\ mainpc' \in {"join", "summary_load"})

C14_NoOutcomeIsFatal == [][C14_Step]_vars

\* a worker whose first request failed has begun its second
C14_Witness ==
    \E w \in Workers :
        /\ iters[w] = 2 /\ calls[w] = 1 /\ pc[w] \in {"slot", "send"}
        /\ total_requests = 1 /\ json_parse_errors = 1

\* C15: a run with duration D > 0, in which time advances and every network
\* call and pacing sleep completes, ends: every worker reaches Stopped, main
\* has joined them all, and the summary has been printed.
C15_BoundedRunTerminates ==
    <>(AllStopped /\ joined = NumWorkers /\ mainpc = "done" /\ reports = 1)

C15_Witness ==
    /\ duration > 0 /\ AllStopped /\ mainpc = "done" /\ reports = 1
    /\ Started = MaxRequests /\ now >= duration

\* C16: in the composite request, getBlock is never sent when the getSlot
\* envelope carries an error object, whether or not it also carries a numeric
\* result, and the request is recorded as one RPC error: so against an
\* endpoint that puts an error object in every envelope no getBlock is sent
\* and every record operation a composite worker calls is record_rpc_error.
C16_NoBlockAfterSlotError ==
    node_failing =>
        /\ \A r \in sent : r.m # "getBlock"
        /\ \A w \in CompositeWorkers : pc[w] \in RecStates => op[w].kind = "rpc"

\* C17: in the composite request, when the worker's params are not empty the
\* parameters of getBlock are [slot, O], slot being the slot getSlot answered
\* and O the last element of params, whatever the length of params.
C17_LastParamIsOptions ==
    \A r \in sent :
        (r.m = "getBlock" /\ params[r.w] # <<>>) =>
            r.p = <<JsonNumber(node_slot), params[r.w][Len(params[r.w])]>>

\* C18: ids are worker_id * 1_000_000 + a local sequence number that grows
\* with each id taken; as long as every worker's local sequence number is at
\* most 999,999, each id sent lies strictly inside its worker's range of one
\* million, the ids of two workers never coincide, and the ids of a worker
\* strictly increase in the order they are sent.
LocalSeq(w) == request_id[w] - w * IdPartition

C18_PartitionHolds ==
    (\A w \in Workers : pc[w] # "spawned" => LocalSeq(w) <= IdPartition - 1) =>
        /\ \A r \in sent :
              /\ r.w * IdPartition < r.id /\ r.id < (r.w + 1) * IdPartition
              /\ r.id <= request_id[r.w]
        /\ \A a \in sent : \A b \in sent : a.w # b.w => a.id # b.id
        /\ \A a \in sent : \A b \in sent :
              (a.w = b.w /\ (a.it < b.it
                             \/ (a.it = b.it /\ a.m = "getSlot" /\ b.m = "getBlock"))) =>
                  a.id < b.id

C18_Witness ==
    /\ \A w \in Workers : pc[w] # "spawned" => LocalSeq(w) <= IdPartition - 1
    /\ \E a \in sent : \E b \in sent :
          /\ a.w # b.w
          /\ a.id = a.w * IdPartition + (IdPartition - 1)
          /\ b.m = "getBlock"

\* C19: in a composite iteration whose getSlot gave a slot, the step that
\* sends getBlock records nothing, and the step at which the answer to
\* getBlock arrives calls exactly one record operation, with the
\* classification of that answer; when it is a success the latency recorded
\* is the time from the iteration's start timestamp (taken before getSlot was
\* sent) to this step, whatever time getSlot took.
C19_Step ==
    \A w \in CompositeWorkers :
        /\ (pc[w] = "slot" /\ pc'[w] = "send") =>
              /\ calls'[w] = calls[w]
              /\ outcomes' = outcomes
              /\ lastSlot'[w] # NoSlot
        /\ (pc[w] = "send" /\ pc'[w] # "send") =>
              /\ lastSlot[w] # NoSlot
              /\ calls'[w] = calls[w] + 1
              /\ pc'[w] \in RecStates
              /\ \E ev \in NetEvents :
                    /\ lastStatus'[w] = ev.status
                    /\ op'[w] = Classify(send_rpc_request(ev),
                                         (now - iter_start[w]) * MicrosPerSec)
              /\ outcomes' = outcomes (+) SetToBag({op'[w]})
              /\ op'[w].kind = "success" =>
                    op'[w].micros = (now - iter_start[w]) * MicrosPerSec

C19_CompositeOutcomeIsBlockOutcome == [][C19_Step]_vars

C19_Witness ==
    \E w \in CompositeWorkers :
        /\ pc[w] \in {"rec_successful", "rec_push"}
        /\ lastSlot[w] # NoSlot
        /\ op[w].kind = "success" /\ op[w].micros = MicrosPerSec
        /\ \E r \in sent : r.w = w /\ r.it = iters[w] /\ r.m = "getBlock"

\* C20: the mutex of http_errors is held by a worker only between lock()
\* and drop(errors) of record_http_error, with nothing but the map entry in
\* between, and by main only while print_summary reads the breakdown: never by
\* a task that is outside these two spans (at a network call, asleep, ended).
\* A task that calls lock() does not hold the mutex, the mutex passes only
\* from free to a task inside lock() and from that task to free, the next
\* step of a holder can always be taken and releases it, and a task inside
\* lock() can take the mutex whenever it is free; so every acquisition is
\* followed by a release, and a task waits only while another task is
\* between its lock() and its release.
Holders == Workers \cup {MainTask}

C20_HeldOnlyInSection ==
    /\ mutex \in Holders \cup {Free}
    /\ \A t \in Workers :
          /\ mutex = t => (pc[t] = "http_entry" /\ ENABLED HttpEntry(t))
          /\ pc[t] = "http_lock" => (mutex # t /\ (mutex = Free => ENABLED HttpLock(t)))
    /\ mutex = MainTask => (mainpc = "summary_print" /\ ENABLED SummaryPrint)
    /\ mainpc = "summary_lock" => (mutex # MainTask /\ (mutex = Free => ENABLED SummaryLock))

C20_Step ==
    /\ mutex' # mutex => (mutex = Free \/ mutex' = Free)
    /\ \A t \in Workers :
          /\ (mutex = t /\ pc'[t] # pc[t]) => mutex' = Free
          /\ (mutex' = t /\ mutex # t) => (pc[t] = "http_lock" /\ pc'[t] = "http_entry")
    /\ (mutex = MainTask /\ mainpc' # mainpc) => mutex' = Free
    /\ (mutex' = MainTask /\ mutex # MainTask) => mainpc = "summary_lock"

C20_LockIsMinimal ==
    /\ []C20_HeldOnlyInSection
    /\ [][C20_Step]_vars
    /\ (mutex # Free) ~> (mutex = Free)

C20_Witness ==
    \E t \in Workers : \E u \in Workers :
        /\ mutex = t /\ pc[t] = "http_entry"
        /\ pc[u] = "http_lock"

\* C21: in every state, the states in which tasks are between the steps of
\* a record operation included, total_requests is at least the sum of
\* successful_requests, http_timeouts, json_parse_errors, network_errors,
\* rpc_errors and the per-key HTTP-error counts, and exceeds it by no more
\* than the number of tasks inside a record operation: by exactly the number
\* of tasks that have done the first fetch_add of their operation and not yet
\* the one on its own counter.
InRecord == {t \in Workers : pc[t] \in RecStates}
BeforeOwnCounter == {t \in Workers : pc[t] \in RecStates \ {"rec_push"}}

C21_TotalLeadsCategories ==
    /\ total_requests >= CategorySum
    /\ total_requests - CategorySum <= Cardinality(InRecord)
    /\ total_requests - CategorySum = Cardinality(BeforeOwnCounter)

C21_Witness ==
    /\ total_requests - CategorySum = 2
    /\ \E t \in Workers : pc[t] = "http_add"
    /\ \E t \in Workers : pc[t] = "rec_successful"

\* C22: response_times grows only by the push of record_success, by the
\* latency of that success: a step of a task whose operation is an error
\* leaves it alone.  So it never holds more latencies than
\* successful_requests counts; until print_summary drains it, it holds that
\* many less one per task between the fetch_add and the push of
\* record_success, and exactly that many once every task has ended.
BeforeDrain == mainpc \in {"spawn", "join", "summary_load", "summary_drain"}
BeforePush == {t \in Workers : pc[t] = "rec_push"}

C22_State ==
    /\ Len(response_times) <= successful_requests
    /\ BeforeDrain =>
          Len(response_times) = successful_requests - Cardinality(BeforePush)
    /\ (BeforeDrain /\ AllStopped) => Len(response_times) = successful_requests

C22_Step ==
    /\ Len(response_times') > Len(response_times) =>
          \E t \in Workers :
              /\ pc[t] = "rec_push" /\ pc'[t] # pc[t]
              /\ op[t].kind = "success"
              /\ response_times' = Append(response_times, op[t].micros)
    /\ \A t \in Workers :
          (pc[t] \in RecStates /\ op[t].kind # "success" /\ pc'[t] # pc[t]) =>
              response_times' = response_times
    /\ \A t \in Workers :
          (pc[t] \notin RecStates /\ pc'[t] \in RecStates /\ op'[t].kind # "success") =>
              response_times' = response_times

C22_LatenciesAreSuccesses == []C22_State /\ [][C22_Step]_vars

C22_Witness ==
    /\ AllStopped /\ mainpc = "join"
    /\ successful_requests = 1 /\ total_requests = 2
    /\ Len(response_times) = 1

====
